---- MODULE Spec2Model ----
(***************************************************************************)
(* finsightAI: the document ingestion pipeline (src/intelligent_layer and  *)
(* src/database.py: the parser and chunker, the per-file ingestion task,   *)
(* the batch run over a worker pool, the connection pool and the           *)
(* document_chunks table) and the endpoints /query and /summarize-news     *)
(* (src/main.py).                                                          *)
(***************************************************************************)
EXTENDS Integers, Sequences, FiniteSets, Bags, TLC

VARIABLES
    \* --- DocumentParser.chunk_text (src/intelligent_layer/parser.py) ---
    chunk_size,      \* self.chunk_size
    chunk_overlap,   \* self.chunk_overlap
    text,            \* the argument of chunk_text, as its list of words
    words,           \* text.split()
    start,           \* the window's start index (0-based)
    chunks,          \* the list of chunks built so far, each a list of words
    chunk_pc,        \* position in chunk_text: "call", "loop", "done"
    \* --- the file system and the store ---
    annual_reports,  \* files in SOURCE_DOCUMENTS_DIR/annual_reports
    quarantine,      \* files in SOURCE_DOCUMENTS_DIR/quarantine
    document_chunks, \* the rows of table document_chunks, as a bag
    \* --- run_document_processing (src/intelligent_layer/updater.py) ---
    run_pc,          \* "idle", "processing", "finished"
    runs_left,       \* runs of the service that are still to be started
    model_name,      \* EmbeddingGenerator.model_name of the run
    all_files_to_process,
    collected,       \* futures the as_completed loop has taken
    logged,          \* files whose future.result() raised (line 146)
    \* --- process_single_file, one task per file ---
    task_pc,         \* "none", "queued", "loop", "handler", "cleanup", "done"
    next_chunk,      \* index of the chunk the loop of step 5 handles next
    embed_log,       \* per iteration of step 5: the chunk and what
                     \* generate_embedding got: "none" (no request made),
                     \* "fail" (the request raised), "ok" (a vector)
    upserted,        \* indices of the chunks whose upsert returned
    result,          \* "pending", "True", "False", "raised"
    outcome,         \* how the ingest ended: succeeded, skipped, ...
    fault,           \* the gateway raised during this ingest
    \* --- the previous ingest of each file ---
    prev_rows, prev_log, prev_outcome, prev_fault,
    \* --- process_single_file, steps 1 to 4, on one file name ---
    filename,        \* os.path.basename(file_path), as its characters
    on_disk,         \* what file_path holds: whether it exists, its pages
    meta,            \* parts, doc_type_raw, ticker, doc_type, report_date
    meta_pc,         \* "name", "filter", "ticker", "parse", "date", or how
                     \* the steps ended: "malformed", "skipped_...",
                     \* "raised", "accepted"
    \* --- query_documents (src/main.py) ---
    http_request,    \* the ticker and the question of GET /query
    today,           \* datetime.now().date()
    llm_content,     \* response['message']['content'] of the filter prompt
    query_details,   \* intent, document_type and year the LLM extracted
    security_record, \* the row of securities for the ticker
    sql_query,       \* the WHERE conditions, in the order of the text
    query_params,    \* the positional parameters
    num_chunks,      \* the LIMIT
    results,         \* cursor.fetchall()
    query_pc,        \* "extract", "lookup", "build", "execute", "source",
                     \* "answer", "done"; of summarize_stock_news:
                     \* "news_lookup", "news_fetch", "news_answer"
    response,        \* the HTTP status, the body and the step that ended
    \* --- the connection pool during run_document_processing ---
    pool,            \* db_manager.pool: connections checked out (used) and
                     \* kept idle, closed, and whether getconn found it
                     \* exhausted
    executor,        \* the tasks of the ThreadPoolExecutor, counted by
                     \* where they are
    pool_pc          \* "create", "tickers", "listing", "tasks", "done"

chunkVars == <<chunk_size, chunk_overlap, text, words, start, chunks, chunk_pc>>
diskVars == <<annual_reports, quarantine, document_chunks>>
runVars == <<run_pc, runs_left, model_name, all_files_to_process, collected, logged>>
taskVars == <<task_pc, next_chunk, embed_log, upserted, result, outcome, fault>>
prevVars == <<prev_rows, prev_log, prev_outcome, prev_fault>>
ingestVars == <<diskVars, runVars, taskVars, prevVars>>

metaVars == <<filename, on_disk, meta, meta_pc>>
queryVars == <<http_request, today, llm_content, query_details, security_record, sql_query,
               query_params, num_chunks, results, query_pc, response>>

\* what the steps of one part of the program leave alone
poolVars == <<pool, executor, pool_pc>>
notChunkVars == <<ingestVars, metaVars, queryVars, poolVars>>
notIngestVars == <<chunkVars, metaVars, queryVars, poolVars>>
notMetaVars == <<chunkVars, ingestVars, queryVars, poolVars>>
notQueryVars == <<chunkVars, ingestVars, metaVars, poolVars>>
notPoolVars == <<chunkVars, ingestVars, metaVars, queryVars>>

vars == <<chunkVars, ingestVars, metaVars, queryVars, poolVars>>

Min(a, b) == IF a < b THEN a ELSE b
Max(a, b) == IF a > b THEN a ELSE b

(***************************************************************************)
(* Bounds of the model.                                                    *)
(***************************************************************************)
MaxWords == 760        \* longest text chunked with the default parameters
MaxSmallWords == 6     \* longest text chunked with the small parameters
MaxChunks == 8         \* iterations of the window loop that are followed
MaxLoad == 3           \* files in the scanned directory plus runs followed

(***************************************************************************)
(* DocumentParser.__init__ defaults.                                       *)
(***************************************************************************)
DefaultChunkSize == 300
DefaultChunkOverlap == 50

\* Python's s[lo:hi] on a list, with its clamping and negative indices.
PySlice(s, lo, hi) ==
    LET n == Len(s)
        l == IF lo < 0 THEN Max(lo + n, 0) ELSE Min(lo, n)
        h == IF hi < 0 THEN Max(hi + n, 0) ELSE Min(hi, n)
    IN IF l >= h THEN << >> ELSE SubSeq(s, l + 1, h)

\* start += self.chunk_size - self.chunk_overlap, without the overlap.
NextStartNoOverlap(s, size, overlap) == s + size

\* start += self.chunk_size - self.chunk_overlap
NextStart(s, size, overlap) == s + size - overlap

\* chunk = words[start:] : the slice without its end
WindowToEnd(ws, s, size) == PySlice(ws, s, Len(ws))

\* chunk = words[start:end] with end = start + self.chunk_size
Window(ws, s, size) == PySlice(ws, s, s + size)

\* The (chunk_size, chunk_overlap) pairs a DocumentParser is built with, and
\* the texts given to it: a text of n words is the word list 1..n.
SmallConfigs == {<<3, 1>>, <<2, 1>>, <<2, 0>>, <<1, 0>>, <<2, 2>>, <<1, 2>>}
DefaultConfig == <<DefaultChunkSize, DefaultChunkOverlap>>
TextOf(n) == [i \in 1..n |-> i]

\* the parts of the program that a specification does not run
ChunkOff ==
    /\ chunk_size = 0 /\ chunk_overlap = 0 /\ text = << >> /\ words = << >>
    /\ start = 0 /\ chunks = << >> /\ chunk_pc = "off"
IngestOff ==
    /\ annual_reports = {} /\ quarantine = {}
    /\ run_pc = "idle" /\ runs_left = 0 /\ model_name = "none"
    /\ all_files_to_process = {} /\ collected = {} /\ logged = {}
    /\ task_pc = << >> /\ next_chunk = << >> /\ embed_log = << >>
    /\ upserted = << >> /\ result = << >> /\ outcome = << >> /\ fault = << >>
    /\ prev_rows = << >> /\ prev_log = << >> /\ prev_outcome = << >>
    /\ prev_fault = << >>
PoolOff == pool = << >> /\ executor = << >> /\ pool_pc = "off"
MetaOff == filename = << >> /\ on_disk = << >> /\ meta = << >> /\ meta_pc = "off"
QueryOff ==
    /\ http_request = << >> /\ today = << >> /\ query_details = << >>
    /\ llm_content = << >>
    /\ security_record = << >> /\ sql_query = << >> /\ query_params = << >>
    /\ num_chunks = 0 /\ results = << >> /\ query_pc = "off"
    /\ response = << >>

ChunkInit ==
    /\ \E c \in SmallConfigs \cup {DefaultConfig} :
          /\ chunk_size = c[1]
          /\ chunk_overlap = c[2]
          /\ \E n \in 0..(IF c = DefaultConfig THEN MaxWords ELSE MaxSmallWords) :
                text = TextOf(n)
    /\ words = << >>
    /\ start = 0
    /\ chunks = << >>
    /\ chunk_pc = "call"
    /\ IngestOff /\ document_chunks = EmptyBag
    /\ MetaOff
    /\ QueryOff
    /\ PoolOff

\* if not text: return []  /  words = text.split(); chunks = []; start = 0
ChunkCall ==
    /\ chunk_pc = "call"
    /\ IF text = << >>
          THEN /\ chunk_pc' = "done"
               /\ UNCHANGED <<words, start, chunks>>
          ELSE /\ words' = text
               /\ chunks' = << >>
               /\ start' = 0
               /\ chunk_pc' = "loop"
    /\ UNCHANGED <<chunk_size, chunk_overlap, text, notChunkVars>>

\* one iteration of: while start < len(words)
ChunkStep ==
    /\ chunk_pc = "loop"
    /\ start < Len(words)
    /\ Len(chunks) < MaxChunks
    /\ chunks' = Append(chunks, Window(words, start, chunk_size))
    /\ start' = NextStart(start, chunk_size, chunk_overlap)
    /\ UNCHANGED <<chunk_size, chunk_overlap, text, words, chunk_pc, notChunkVars>>

\* the loop condition fails: return chunks
ChunkReturn ==
    /\ chunk_pc = "loop"
    /\ ~(start < Len(words))
    /\ chunk_pc' = "done"
    /\ UNCHANGED <<chunk_size, chunk_overlap, text, words, start, chunks, notChunkVars>>

ChunkNext == ChunkCall \/ ChunkStep \/ ChunkReturn

\* The value chunk_text returns, for the parameters that let the loop end.
RECURSIVE ChunkLoop(_, _, _, _, _)
ChunkLoop(ws, s, acc, size, overlap) ==
    IF s < Len(ws)
       THEN ChunkLoop(ws, NextStart(s, size, overlap),
                      Append(acc, Window(ws, s, size)), size, overlap)
       ELSE acc

ChunkText(t, size, overlap) ==
    IF t = << >> THEN << >> ELSE ChunkLoop(t, 0, << >>, size, overlap)

(***************************************************************************)
(* File names, as the character strings the code splits and tests.         *)
(***************************************************************************)
Digits == {"0", "1", "2", "3", "4", "5", "6", "7", "8", "9"}
Upper == <<"A", "B", "C", "D", "E", "F", "G", "H", "I", "J", "K", "L", "M",
           "N", "O", "P", "Q", "R", "S", "T", "U", "V", "W", "X", "Y", "Z">>
Lower == <<"a", "b", "c", "d", "e", "f", "g", "h", "i", "j", "k", "l", "m",
           "n", "o", "p", "q", "r", "s", "t", "u", "v", "w", "x", "y", "z">>

\* str.lower()
LowerChar(c) ==
    IF \E k \in DOMAIN Upper : Upper[k] = c
       THEN Lower[CHOOSE k \in DOMAIN Upper : Upper[k] = c]
       ELSE c
ToLower(s) == [k \in DOMAIN s |-> LowerChar(s[k])]

\* str.endswith(suffix)
EndsWith(s, suffix) ==
    /\ Len(s) >= Len(suffix)
    /\ SubSeq(s, Len(s) - Len(suffix) + 1, Len(s)) = suffix

\* str.isdigit()
IsDigit(s) == s # << >> /\ \A k \in DOMAIN s : s[k] \in Digits

\* str.split(sep) for a one-character separator: empty fields are kept.
RECURSIVE SplitFrom(_, _, _, _)
SplitFrom(s, sep, k, field) ==
    IF k > Len(s) THEN <<field>>
    ELSE IF s[k] = sep
            THEN <<field>> \o SplitFrom(s, sep, k + 1, << >>)
            ELSE SplitFrom(s, sep, k + 1, Append(field, s[k]))
Split(s, sep) == SplitFrom(s, sep, 1, << >>)

\* os.path.splitext: the extension starts at the last dot, unless that dot
\* is among the leading dots of the name.
LastDot(s) ==
    LET dots == {k \in DOMAIN s : s[k] = "."}
    IN IF dots = {} THEN 0 ELSE CHOOSE k \in dots : \A j \in dots : j <= k
SplitExt(s) ==
    LET d == LastDot(s)
    IN IF d = 0 \/ \A k \in 1..d : s[k] = "."
          THEN <<s, << >> >>
          ELSE <<SubSeq(s, 1, d - 1), SubSeq(s, d, Len(s))>>

DotPdf == <<".", "p", "d", "f">>
DotTxt == <<".", "t", "x", "t">>
DotNS == <<".", "N", "S">>
TagAR == <<"A", "R">>
TagCR == <<"C", "R">>
TagConcall == <<"C", "o", "n", "c", "a", "l", "l">>
TagPPT == <<"P", "P", "T">>


(***************************************************************************)
(* datetime.strptime for the three formats process_single_file uses.       *)
(* Every result is a record: a date, or the ValueError raised.             *)
(***************************************************************************)
DigitVal(c) == CHOOSE v \in 0..9 : ToString(v) = c

RECURSIVE NumVal(_)
NumVal(s) == IF s = << >> THEN 0
             ELSE 10 * NumVal(SubSeq(s, 1, Len(s) - 1)) + DigitVal(s[Len(s)])

IsLeap(y) == (y % 4 = 0 /\ y % 100 # 0) \/ y % 400 = 0
DaysIn(y, m) == IF m = 2 THEN (IF IsLeap(y) THEN 29 ELSE 28)
                ELSE IF m \in {4, 6, 9, 11} THEN 30 ELSE 31

ValueError == [kind |-> "ValueError"]
IndexError == [kind |-> "IndexError"]
None == [kind |-> "None"]

\* datetime(y, m, d), which raises ValueError outside the calendar
MakeDate(y, m, d) ==
    IF y >= 1 /\ m >= 1 /\ m <= 12 /\ d >= 1 /\ d <= DaysIn(y, m)
       THEN [kind |-> "date", y |-> y, m |-> m, d |-> d]
       ELSE ValueError

\* strptime(s, '%Y%m%d') on a string of 8 characters
StrptimeYmd(s) ==
    IF IsDigit(s) /\ Len(s) = 8
       THEN MakeDate(NumVal(SubSeq(s, 1, 4)), NumVal(SubSeq(s, 5, 6)),
                     NumVal(SubSeq(s, 7, 8)))
       ELSE ValueError

\* strptime(s, '%Y%m') on a string of 6 characters: the day defaults to 1
StrptimeYm(s) ==
    IF IsDigit(s) /\ Len(s) = 6
       THEN MakeDate(NumVal(SubSeq(s, 1, 4)), NumVal(SubSeq(s, 5, 6)), 1)
       ELSE ValueError

\* strptime(f"{s}-03-31", '%Y-%m-%d')
StrptimeFiscal(s) ==
    IF IsDigit(s) /\ Len(s) = 4 THEN MakeDate(NumVal(s), 3, 31)
                                ELSE ValueError

(***************************************************************************)
(* process_single_file, steps 1, 2 and 4: what the file name yields.       *)
(***************************************************************************)
Parts(name) == Split(SplitExt(name)[1], "_")

\* the name has the shape of an annual report: <TICKER>_<YYYY>
IsAnnualName(parts) == Len(parts) = 2 /\ IsDigit(parts[2]) /\ Len(parts[2]) = 4

\* a test of the token count that lets every name of two tokens pass
MalformedOneToken(parts) == Len(parts) < 2

\* the else branch of step 1: "Skipping malformed filename"
Malformed(parts) == ~IsAnnualName(parts) /\ ~(Len(parts) >= 3)

\* doc_type_raw of a name that is not malformed
DocTypeRaw(parts) == IF IsAnnualName(parts) THEN TagAR ELSE parts[2]

IsPdf(name) == EndsWith(ToLower(name), DotPdf)
IsTxt(name) == EndsWith(ToLower(name), DotTxt)

\* the filter without the test of the extension
ExtensionOkAlways(name, raw) == TRUE

\* the two filters of step 2: FALSE where the code returns False
ExtensionOk(name, raw) ==
    /\ ~(raw \in {TagAR, TagConcall, TagPPT} /\ ~IsPdf(name))
    /\ ~(raw = TagCR /\ ~(IsPdf(name) \/ IsTxt(name)))

Ticker(parts) == parts[1] \o DotNS

\* doc_type_map.get(doc_type_raw, "Unknown")
DocType(raw) ==
    IF raw = TagAR THEN "Annual Report"
    ELSE IF raw = TagCR THEN "Credit Rating"
    ELSE IF raw = TagConcall THEN "Concall Transcript"
    ELSE IF raw = TagPPT THEN "Concall PPT"
    ELSE "Unknown"

\* the inner try of step 4: a date, None, or the IndexError that the
\* inner except ValueError does not catch
OrNone(d) == IF d.kind = "ValueError" THEN None ELSE d
ReportDate(parts, raw) ==
    IF raw = TagAR THEN OrNone(StrptimeFiscal(parts[2]))
    ELSE IF raw = TagCR /\ Len(parts) < 4 THEN IndexError
    ELSE LET date_str == IF raw # TagCR THEN parts[Len(parts)] ELSE parts[4]
         IN IF Len(date_str) = 8 THEN OrNone(StrptimeYmd(date_str))
            ELSE IF Len(date_str) = 6 THEN OrNone(StrptimeYm(date_str))
            ELSE None

(***************************************************************************)
(* The files of the model: name and content.  A content is the list of     *)
(* the file's pages (a text file is one page); a page is the list of its   *)
(* words, or unreadable (extraction or decoding raises).  Word 0 stands    *)
(* for a word made of NUL characters only, any other word holds none.      *)
(***************************************************************************)
Files == {"TCS_2024.pdf", "TCS_2023.pdf", "ITC_CR_20250730.pdf", "TCS.pdf",
          "ITC_PPT_202501.txt", "XYZ_2024.pdf", "ITC_2024.pdf",
          "ITC_CR_icra_20250730.txt"}

FileName ==
    [f \in Files |->
       CASE f = "TCS_2024.pdf" -> <<"T","C","S","_","2","0","2","4",".","p","d","f">>
         [] f = "TCS_2023.pdf" -> <<"T","C","S","_","2","0","2","3",".","p","d","f">>
         [] f = "ITC_CR_20250730.pdf" ->
              <<"I","T","C","_","C","R","_","2","0","2","5","0","7","3","0",
                ".","p","d","f">>
         [] f = "TCS.pdf" -> <<"T","C","S",".","p","d","f">>
         [] f = "ITC_PPT_202501.txt" ->
              <<"I","T","C","_","P","P","T","_","2","0","2","5","0","1",
                ".","t","x","t">>
         [] f = "XYZ_2024.pdf" -> <<"X","Y","Z","_","2","0","2","4",".","p","d","f">>
         [] f = "ITC_2024.pdf" -> <<"I","T","C","_","2","0","2","4",".","p","d","f">>
         [] f = "ITC_CR_icra_20250730.txt" ->
              <<"I","T","C","_","C","R","_","i","c","r","a","_",
                "2","0","2","5","0","7","3","0",".","t","x","t">>]

Rep(n, w) == [k \in 1..n |-> w]
Page(ws) == [ok |-> TRUE, words |-> ws]
BadPage == [ok |-> FALSE, words |-> << >>]

FileContent ==
    [f \in Files |->
       CASE f = "TCS_2024.pdf" -> <<Page(Rep(300, 1)), Page(<< >>), Page(Rep(250, 1))>>
         [] f = "TCS_2023.pdf" -> <<Page(Rep(50, 1))>>
         [] f = "ITC_CR_20250730.pdf" -> <<Page(Rep(10, 1))>>
         [] f = "TCS.pdf" -> <<Page(Rep(10, 1))>>
         [] f = "ITC_PPT_202501.txt" -> <<Page(Rep(10, 2))>>
         [] f = "XYZ_2024.pdf" -> <<Page(Rep(10, 1))>>
         [] f = "ITC_2024.pdf" -> <<Page(Rep(10, 1)), BadPage>>
         [] f = "ITC_CR_icra_20250730.txt" -> <<Page(Rep(250, 2) \o <<0>>)>>]

\* ticker_to_id_map, from the securities table
TickerToId ==
    [t \in {<<"T","C","S",".","N","S">>, <<"I","T","C",".","N","S">>,
            <<"R","E","L","I","A","N","C","E",".","N","S">>} |->
       IF t[1] = "T" THEN 1 ELSE IF t[1] = "I" THEN 2 ELSE 3]

(***************************************************************************)
(* DocumentParser.parse_document                                           *)
(***************************************************************************)
RECURSIVE JoinPages(_)
JoinPages(pages) ==
    IF pages = << >> THEN << >> ELSE Head(pages).words \o JoinPages(Tail(pages))

\* _parse_pdf returning full_text from its handler: the pages extracted
\* before the one that raised
RECURSIVE ParsePdfPartial(_)
ParsePdfPartial(pages) ==
    IF pages = << >> \/ ~Head(pages).ok THEN << >>
    ELSE Head(pages).words \o ParsePdfPartial(Tail(pages))

\* _parse_pdf: the text of all pages, or "" when any page raises
ParsePdf(pages) ==
    IF \E k \in DOMAIN pages : ~pages[k].ok THEN << >> ELSE JoinPages(pages)

\* _parse_txt: the text of the file, or "" when reading raises
ParseTxt(pages) ==
    IF \E k \in DOMAIN pages : ~pages[k].ok THEN << >> ELSE JoinPages(pages)

\* parse_document(file_path), given whether the path exists
ParseDocument(name, exists, content) ==
    IF ~exists THEN << >>
    ELSE IF IsPdf(name) THEN ParsePdf(content)
    ELSE IF IsTxt(name) THEN ParseTxt(content)
    ELSE << >>

\* clean_chunk = chunk.replace('\x00', ''): the string is empty exactly when
\* the chunk is one word of NUL characters; otherwise the words stay apart.
CleanChunk(chunk) == IF chunk = <<0>> THEN << >> ELSE chunk

\* the digest of a sequence of words, position by position
RECURSIVE Digest(_, _, _)
Digest(t, lo, hi) ==
    IF lo > hi THEN 0
    ELSE IF lo = hi THEN (lo * (t[lo] + 1)) % 65521
    ELSE LET mid == (lo + hi) \div 2
         IN (Digest(t, lo, mid) + Digest(t, mid + 1, hi)) % 65521

(***************************************************************************)
(* process_single_file steps 1 to 4 for one file: "skip" where the code    *)
(* returns False, "raise" where an exception reaches the outer handler,    *)
(* "loop" where step 5 starts.                                             *)
(***************************************************************************)
NoPlan(v, why) ==
    [verdict |-> v, why |-> why, security_id |-> 0, document_type |-> "",
     report_date |-> None, text_chunks |-> << >>]

Steps1To4(name, exists, content, ids) ==
    LET parts == Parts(name)
        raw == DocTypeRaw(parts)
        raw_text == ParseDocument(name, exists, content)
        text_chunks == ChunkText(raw_text, DefaultChunkSize, DefaultChunkOverlap)
        report_date == ReportDate(parts, raw)
    IN IF Malformed(parts) THEN NoPlan("skip", "malformed")
       ELSE IF ~ExtensionOk(name, raw) THEN NoPlan("skip", "extension")
       ELSE IF Ticker(parts) \notin DOMAIN ids THEN NoPlan("skip", "ticker")
       ELSE IF raw_text = << >> THEN NoPlan("skip", "parse")
       ELSE IF text_chunks = << >> THEN NoPlan("skip", "chunks")
       ELSE IF report_date.kind = "IndexError" THEN NoPlan("raise", "IndexError")
       ELSE [verdict |-> "loop", why |-> "", security_id |-> ids[Ticker(parts)],
             document_type |-> DocType(raw), report_date |-> report_date,
             text_chunks |-> text_chunks]

\* Steps1To4 of every file of the model, by whether the path exists
Plan ==
    [f \in Files |->
       [e \in BOOLEAN |-> Steps1To4(FileName[f], e, FileContent[f], TickerToId)]]

\* the texts a chunk of a file of the catalogue can have in step 5
ChunkTexts ==
    {<< >>} \cup
    UNION {{CleanChunk(Plan[f][TRUE].text_chunks[k]) :
              k \in DOMAIN Plan[f][TRUE].text_chunks} : f \in Files}

\* hashlib.md5(data['chunk_text'].encode()).hexdigest(): the length of the
\* text and the digest of its words, computed once for every text
Md5Table == [t \in ChunkTexts |-> <<Len(t), Digest(t, 1, Len(t))>>]
Md5(t) == Md5Table[t]

(***************************************************************************)
(* EmbeddingGenerator and DatabaseManager                                  *)
(***************************************************************************)
\* config.EMBEDDING_MODEL, read from the environment when a run starts
Models == {"mxbai-embed-large", "nomic-embed-text"}

\* response.get('embedding') of a request that succeeds
Embedding(model, t) == [model |-> model, of |-> Md5(t)]

\* f"file://{file_path}" with file_path = <target_directory>/<file>
SourceUrl(f) == <<"file://", "annual_reports", f>>

\* ON CONFLICT (chunk_hash): the key without the source
ConflictKeyHashOnly(r) == <<r.chunk_hash>>

\* ON CONFLICT (security_id, document_type, source_url): the key without the hash
ConflictKeyNoHash(r) == <<r.security_id, r.document_type, r.source_url>>

\* ON CONFLICT (security_id, document_type, source_url, chunk_hash)
ConflictKey(r) == <<r.security_id, r.document_type, r.source_url, r.chunk_hash>>

\* data['chunk_hash'] = md5 of data['chunk_text']: the row that is inserted.
\* The row keeps the text by its digest, which is what the key reads.
WithHash(data) ==
    [security_id |-> data.security_id, document_type |-> data.document_type,
     source_url |-> data.source_url, report_date |-> data.report_date,
     embedding |-> data.embedding, chunk_hash |-> Md5(data.chunk_text)]

\* a plain INSERT into a table without the unique index
InsertDocumentChunk(table, data) == table (+) SetToBag({WithHash(data)})

\* INSERT ... ON CONFLICT ... DO UPDATE SET report_date, embedding: the
\* row of the key is replaced by the new one
UpsertDocumentChunkUpdating(table, data) ==
    LET row == WithHash(data)
        keep == {r \in BagToSet(table) : ConflictKey(r) # ConflictKey(row)}
    IN [r \in keep |-> table[r]] (+) SetToBag({row})

\* upsert_document_chunk: INSERT ... ON CONFLICT ... DO NOTHING
UpsertDocumentChunk(table, data) ==
    LET row == WithHash(data)
    IN IF \E r \in BagToSet(table) : ConflictKey(r) = ConflictKey(row)
          THEN table
          ELSE table (+) SetToBag({row})

\* delete_chunks_for_file: DELETE FROM document_chunks WHERE source_url = %s
DeleteChunksForFile(table, source_url) ==
    LET keep == {r \in BagToSet(table) : r.source_url # source_url}
    IN [r \in keep |-> table[r]]

\* the rows of one source, as a bag
SourceRows(table, f) ==
    LET mine == {r \in BagToSet(table) : r.source_url = SourceUrl(f)}
    IN [r \in mine |-> table[r]]

(***************************************************************************)
(* run_document_processing                                                 *)
(***************************************************************************)
MaxWorkers == 8

\* a scan that descends into the quarantine directory
ListDirRecursive(ar, q) == ar \cup q

\* os.listdir(target_directory), files only
ListDir(ar, q) == ar

IngestInit ==
    /\ annual_reports \in SUBSET Files
    /\ annual_reports # {}
    /\ runs_left \in 1..MaxLoad
    /\ Cardinality(annual_reports) + runs_left <= MaxLoad
    /\ quarantine = {}
    /\ document_chunks = EmptyBag
    /\ run_pc = "idle" /\ model_name = "none"
    /\ all_files_to_process = {} /\ collected = {} /\ logged = {}
    /\ task_pc = [f \in Files |-> "none"]
    /\ next_chunk = [f \in Files |-> 0]
    /\ embed_log = [f \in Files |-> << >>]
    /\ upserted = [f \in Files |-> {}]
    /\ result = [f \in Files |-> "pending"]
    /\ outcome = [f \in Files |-> "none"]
    /\ fault = [f \in Files |-> FALSE]
    /\ prev_rows = [f \in Files |-> EmptyBag]
    /\ prev_log = [f \in Files |-> << >>]
    /\ prev_outcome = [f \in Files |-> "none"]
    /\ prev_fault = [f \in Files |-> FALSE]
    /\ ChunkOff
    /\ MetaOff
    /\ QueryOff
    /\ PoolOff

\* lines 106-138: the run up to the submission of the tasks.  The start of
\* a run is also where the model keeps what the last ingest of a listed
\* file left behind.
RunStart ==
    /\ run_pc \in {"idle", "finished"}
    /\ runs_left > 0
    /\ runs_left' = runs_left - 1
    /\ \E db \in {"unreachable", "no_tickers", "ok"}, m \in Models :
         LET listing == ListDir(annual_reports, quarantine)
         IN IF db # "ok"
               THEN /\ run_pc' = "finished"
                    /\ model_name' = IF db = "unreachable" THEN model_name ELSE m
                    /\ UNCHANGED <<all_files_to_process, collected, logged,
                                   taskVars, prevVars>>
            ELSE IF listing = {}
               THEN /\ run_pc' = "finished"
                    /\ model_name' = m
                    /\ all_files_to_process' = listing
                    /\ UNCHANGED <<collected, logged, taskVars, prevVars>>
               ELSE /\ run_pc' = "processing"
                    /\ model_name' = m
                    /\ all_files_to_process' = listing
                    /\ collected' = {}
                    /\ logged' = {}
                    /\ task_pc' = [f \in Files |->
                                     IF f \in listing THEN "queued" ELSE "none"]
                    /\ next_chunk' = [f \in Files |-> 0]
                    /\ embed_log' = [f \in Files |->
                                       IF f \in listing THEN << >> ELSE embed_log[f]]
                    /\ upserted' = [f \in Files |->
                                      IF f \in listing THEN {} ELSE upserted[f]]
                    /\ result' = [f \in Files |->
                                    IF f \in listing THEN "pending" ELSE result[f]]
                    /\ outcome' = [f \in Files |->
                                     IF f \in listing THEN "none" ELSE outcome[f]]
                    /\ fault' = [f \in Files |->
                                   IF f \in listing THEN FALSE ELSE fault[f]]
                    /\ prev_rows' = [f \in Files |->
                                       IF f \in listing /\ outcome[f] # "none"
                                          THEN SourceRows(document_chunks, f)
                                          ELSE prev_rows[f]]
                    /\ prev_log' = [f \in Files |->
                                      IF f \in listing /\ outcome[f] # "none"
                                         THEN embed_log[f] ELSE prev_log[f]]
                    /\ prev_outcome' = [f \in Files |->
                                          IF f \in listing /\ outcome[f] # "none"
                                             THEN outcome[f] ELSE prev_outcome[f]]
                    /\ prev_fault' = [f \in Files |->
                                        IF f \in listing /\ outcome[f] # "none"
                                           THEN fault[f] ELSE prev_fault[f]]
    /\ UNCHANGED <<notIngestVars, diskVars>>

\* future.result() outside a try: the exception of a task ends the loop
AfterResultUncaught(value) == IF value = "raised" THEN "finished" ELSE "processing"

\* lines 143-146: the exception of a task is logged and the loop goes on
AfterResult(value) == "processing"

\* lines 141-146: as_completed hands over a finished future
RunCollect(f) ==
    /\ run_pc = "processing"
    /\ f \in all_files_to_process \ collected
    /\ task_pc[f] = "done"
    /\ collected' = collected \cup {f}
    /\ logged' = IF result[f] = "raised" THEN logged \cup {f} ELSE logged
    /\ run_pc' = AfterResult(result[f])
    /\ UNCHANGED <<notIngestVars, diskVars, runs_left, model_name,
                   all_files_to_process, taskVars, prevVars>>

\* lines 151-156: every future was taken, the pool is closed
RunFinish ==
    /\ run_pc = "processing"
    /\ collected = all_files_to_process
    /\ run_pc' = "finished"
    /\ UNCHANGED <<notIngestVars, diskVars, runs_left, model_name,
                   all_files_to_process, collected, logged, taskVars, prevVars>>

(***************************************************************************)
(* process_single_file, as the task of file f on a worker thread           *)
(***************************************************************************)
Running == {f \in Files : task_pc[f] \in {"loop", "handler", "cleanup"}}

ThePlan(f) == LET exists == (f \in annual_reports) IN Plan[f][exists]

Got(k, what) == [chunk |-> k, got |-> what]

\* the value returned where the file is skipped, and after the cleanup
SkipValue == "False"
HandlerValueTrue == "True"
HandlerValue == "False"

\* the task ends: the value returned (or "raised") and how the ingest ended
Return(f, value, how) ==
    /\ task_pc' = [task_pc EXCEPT ![f] = "done"]
    /\ result' = [result EXCEPT ![f] = value]
    /\ outcome' = [outcome EXCEPT ![f] = how]

\* lines 21-69: a worker takes the task and runs steps 1 to 4
Begin(f) ==
    /\ task_pc[f] = "queued"
    /\ Cardinality(Running) < MaxWorkers
    /\ LET plan == ThePlan(f)
       IN CASE plan.verdict = "skip" ->
                 /\ Return(f, SkipValue, "skipped")
                 /\ UNCHANGED next_chunk
            [] plan.verdict = "raise" ->
                 /\ task_pc' = [task_pc EXCEPT ![f] = "handler"]
                 /\ UNCHANGED <<next_chunk, result, outcome>>
            [] plan.verdict = "loop" ->
                 /\ task_pc' = [task_pc EXCEPT ![f] = "loop"]
                 /\ next_chunk' = [next_chunk EXCEPT ![f] = 1]
                 /\ UNCHANGED <<result, outcome>>
    /\ UNCHANGED <<notIngestVars, diskVars, runVars, embed_log, upserted, fault,
                   prevVars>>

\* "if not embedding: continue" as a break out of the loop
BreakIndex(k, n) == n + 1

\* "if not embedding: continue" as a retry of the same chunk
RetryIndex(k, n) == k

\* "if not embedding: continue": the loop goes on with the next chunk
ContinueIndex(k, n) == k + 1

\* the loop of step 5 moves to chunk k of n, or returns True after the last
Advance(f, k, n) ==
    IF k > n THEN /\ Return(f, "True", "succeeded")
                  /\ next_chunk' = [next_chunk EXCEPT ![f] = k]
             ELSE /\ next_chunk' = [next_chunk EXCEPT ![f] = k]
                  /\ UNCHANGED <<task_pc, result, outcome>>

\* lines 72-86: one iteration of the loop of step 5.  generate_embedding
\* makes no request for an empty text, and returns None when the request
\* raises; upsert_document_chunk writes the row or raises.
LoopStep(f) ==
    /\ task_pc[f] = "loop"
    /\ LET plan == ThePlan(f)
           n == Len(plan.text_chunks)
           k == next_chunk[f]
           clean_chunk == CleanChunk(plan.text_chunks[k])
           doc_info == [security_id |-> plan.security_id,
                        document_type |-> plan.document_type,
                        source_url |-> SourceUrl(f),
                        report_date |-> plan.report_date,
                        chunk_text |-> clean_chunk,
                        embedding |-> Embedding(model_name, clean_chunk)]
       IN IF clean_chunk = << >>
             THEN /\ embed_log' = [embed_log EXCEPT ![f] = Append(@, Got(k, "none"))]
                  /\ Advance(f, ContinueIndex(k, n), n)
                  /\ UNCHANGED <<document_chunks, upserted, fault>>
             ELSE \E request \in {"fail", "ok"}, gateway \in {"ok", "raise"} :
                    IF request = "fail"
                       THEN /\ gateway = "ok"
                            /\ embed_log' = [embed_log EXCEPT ![f] =
                                                Append(@, Got(k, "fail"))]
                            /\ Advance(f, ContinueIndex(k, n), n)
                            /\ UNCHANGED <<document_chunks, upserted, fault>>
                       ELSE /\ embed_log' = [embed_log EXCEPT ![f] =
                                                Append(@, Got(k, "ok"))]
                            /\ IF gateway = "ok"
                                  THEN /\ document_chunks' =
                                            UpsertDocumentChunk(document_chunks, doc_info)
                                       /\ upserted' = [upserted EXCEPT ![f] = @ \cup {k}]
                                       /\ Advance(f, k + 1, n)
                                       /\ UNCHANGED fault
                                  ELSE /\ task_pc' = [task_pc EXCEPT ![f] = "handler"]
                                       /\ fault' = [fault EXCEPT ![f] = TRUE]
                                       /\ UNCHANGED <<document_chunks, upserted,
                                                      next_chunk, result, outcome>>
    /\ UNCHANGED <<notIngestVars, annual_reports, quarantine, runVars, prevVars>>

\* lines 88-94: the outer handler moves the file to the quarantine
\* directory; when makedirs or move raises, the exception leaves the task.
HandlerMove(f) ==
    /\ task_pc[f] = "handler"
    /\ \E move \in {"ok", "raise"} :
         IF move = "ok"
            THEN /\ annual_reports' = annual_reports \ {f}
                 /\ quarantine' = quarantine \cup {f}
                 /\ task_pc' = [task_pc EXCEPT ![f] = "cleanup"]
                 /\ UNCHANGED <<result, outcome>>
            ELSE /\ Return(f, "raised", "escaped")
                 /\ UNCHANGED <<annual_reports, quarantine>>
    /\ UNCHANGED <<notIngestVars, document_chunks, runVars, next_chunk, embed_log,
                   upserted, fault, prevVars>>

\* lines 96-98: delete_chunks_for_file, which logs and swallows a failure
\* of the DELETE, then return False
HandlerCleanup(f) ==
    /\ task_pc[f] = "cleanup"
    /\ \E gateway \in {"ok", "raise"} :
         document_chunks' = IF gateway = "ok"
                               THEN DeleteChunksForFile(document_chunks, SourceUrl(f))
                               ELSE document_chunks
    /\ Return(f, HandlerValue, "quarantined")
    /\ UNCHANGED <<notIngestVars, annual_reports, quarantine, runVars, next_chunk,
                   embed_log, upserted, fault, prevVars>>

IngestNext ==
    \/ RunStart
    \/ RunFinish
    \/ \E f \in Files :
         \/ RunCollect(f)
         \/ Begin(f)
         \/ LoopStep(f)
         \/ HandlerMove(f)
         \/ HandlerCleanup(f)

Spec == IngestInit /\ [][IngestNext]_vars

\* Worker threads run their tasks to the end, every call to a collaborator
\* returns, and the main thread keeps taking finished futures.
Progress ==
    \/ RunFinish
    \/ \E f \in Files :
          \/ RunCollect(f)
          \/ Begin(f)
          \/ LoopStep(f)
          \/ HandlerMove(f)
          \/ HandlerCleanup(f)

FairSpec == Spec /\ WF_vars(Progress)

ChunkSpec == ChunkInit /\ [][ChunkNext]_vars

\* chunk_text runs on: a call that has started takes its next step
ChunkFairSpec == ChunkSpec /\ WF_vars(ChunkNext)

(***************************************************************************)
(* process_single_file, steps 1 to 4, followed on one file name at a time. *)
(* The names are built from tokens: a ticker, a tag, an agency, a second   *)
(* free token, a datecode, and an extension.                               *)
(***************************************************************************)
TokRELIANCE == <<"R","E","L","I","A","N","C","E">>
TokTCS == <<"T","C","S">>
TokXYZ == <<"X","Y","Z">>
TokOther == <<"X","X">>
TokCrisil == <<"c","r","i","s","i","l">>
TokLT == <<"l","t">>
DotPDF == <<".","P","D","F">>
Code2024 == <<"2","0","2","4">>
Code20250730 == <<"2","0","2","5","0","7","3","0">>
Code202501 == <<"2","0","2","5","0","1">>
Code20251340 == <<"2","0","2","5","1","3","4","0">>
Code202513 == <<"2","0","2","5","1","3">>
Code2025073 == <<"2","0","2","5","0","7","3">>
CodeQ1 == <<"q","1">>

NameTickers == {TokRELIANCE, TokTCS, TokXYZ}
NameTags == {TagAR, TagCR, TagConcall, TagPPT, TokOther}
NameCodes == {Code2024, Code20250730, Code202501, Code20251340, Code202513,
              Code2025073, CodeQ1}
DotDoc == <<".", "d", "o", "c">>
NameExts == {DotPdf, DotTxt, DotPDF, DotDoc}

\* "_".join(tokens)
RECURSIVE JoinTokens(_)
JoinTokens(tokens) ==
    IF Len(tokens) = 1 THEN tokens[1]
    ELSE tokens[1] \o <<"_">> \o JoinTokens(Tail(tokens))

NameTokens ==
    {<<t>> : t \in NameTickers}
    \cup {<<t, c>> : t \in NameTickers, c \in NameCodes}
    \cup {<<t, g, c>> : t \in NameTickers, g \in NameTags, c \in NameCodes}
    \cup {<<t, g, TokCrisil, c>> :
             t \in NameTickers, g \in NameTags, c \in NameCodes}
    \cup {<<t, g, TokCrisil, TokLT, c>> :
             t \in NameTickers, g \in {TagCR, TagConcall}, c \in NameCodes}

FileNames == {JoinTokens(ts) \o e : ts \in NameTokens, e \in NameExts}

NoMeta ==
    [parts |-> << >>, doc_type_raw |-> << >>, ticker |-> << >>,
     security_id |-> 0, raw_text |-> << >>, doc_type |-> "", report_date |-> None]

\* what a file can hold: pages that all extract (one of them without
\* text), a page that raises after one that extracted, a first page that
\* raises (for a text file: a decode failure), no text at all
PageLists ==
    {<<Page(<<1, 2>>)>>, <<Page(<<1>>), Page(<< >>), Page(<<2>>)>>,
     <<Page(<<1>>), BadPage>>, <<BadPage>>, <<Page(<< >>)>>}

MetaInit ==
    /\ filename \in FileNames
    /\ on_disk \in {[exists |-> TRUE, pages |-> ps] : ps \in PageLists}
                  \cup {[exists |-> FALSE, pages |-> << >>]}
    /\ meta = NoMeta
    /\ meta_pc = "name"
    /\ ChunkOff
    /\ IngestOff /\ document_chunks = EmptyBag
    /\ QueryOff
    /\ PoolOff

\* lines 23-37: split the name; a malformed name returns False
MetaName ==
    /\ meta_pc = "name"
    /\ LET parts == Parts(filename)
       IN IF Malformed(parts)
             THEN /\ meta' = [meta EXCEPT !.parts = parts]
                  /\ meta_pc' = "malformed"
             ELSE /\ meta' = [meta EXCEPT !.parts = parts,
                                          !.doc_type_raw = DocTypeRaw(parts)]
                  /\ meta_pc' = "filter"
    /\ UNCHANGED <<filename, on_disk, notMetaVars>>

\* lines 40-41: the filters of the extension
MetaFilter ==
    /\ meta_pc = "filter"
    /\ meta_pc' = IF ExtensionOk(filename, meta.doc_type_raw)
                     THEN "ticker" ELSE "skipped_extension"
    /\ UNCHANGED <<filename, on_disk, meta, notMetaVars>>

\* lines 43-46: the ticker and its security_id
MetaTicker ==
    /\ meta_pc = "ticker"
    /\ LET ticker == Ticker(meta.parts)
       IN IF ticker \in DOMAIN TickerToId
             THEN /\ meta' = [meta EXCEPT !.ticker = ticker,
                                          !.security_id = TickerToId[ticker]]
                  /\ meta_pc' = "parse"
             ELSE /\ meta' = [meta EXCEPT !.ticker = ticker]
                  /\ meta_pc' = "skipped_ticker"
    /\ UNCHANGED <<filename, on_disk, notMetaVars>>

\* lines 48-53: parse_document and chunk_text; no text, or no chunk,
\* returns False
MetaParse ==
    /\ meta_pc = "parse"
    /\ LET text_of_file == ParseDocument(filename, on_disk.exists, on_disk.pages)
           text_chunks == ChunkText(text_of_file, DefaultChunkSize, DefaultChunkOverlap)
       IN /\ meta' = [meta EXCEPT !.raw_text = text_of_file]
          /\ meta_pc' = IF text_of_file = << >> \/ text_chunks = << >>
                           THEN "skipped_parse" ELSE "date"
    /\ UNCHANGED <<filename, on_disk, notMetaVars>>

\* lines 56-69: the document type and the date; an IndexError leaves the
\* inner try and reaches the outer handler
MetaDate ==
    /\ meta_pc = "date"
    /\ LET report_date == ReportDate(meta.parts, meta.doc_type_raw)
       IN IF report_date.kind = "IndexError"
             THEN /\ meta' = [meta EXCEPT !.doc_type = DocType(meta.doc_type_raw)]
                  /\ meta_pc' = "raised"
             ELSE /\ meta' = [meta EXCEPT !.doc_type = DocType(meta.doc_type_raw),
                                          !.report_date = report_date]
                  /\ meta_pc' = "accepted"
    /\ UNCHANGED <<filename, on_disk, notMetaVars>>

MetaNext == MetaName \/ MetaFilter \/ MetaTicker \/ MetaParse \/ MetaDate

MetaSpec == MetaInit /\ [][MetaNext]_vars

(***************************************************************************)
(* query_documents (src/main.py), up to the answer: the filters the LLM    *)
(* extracted, the SQL text and its positional parameters, the rows the     *)
(* store returns for them, and the response.                               *)
(***************************************************************************)
MaxRows == 3           \* rows of the catalogue below that a store holds
MaxFill == 6           \* rows of one more report that a store can hold

\* date.toordinal()
DaysBeforeYear(y) ==
    365 * (y - 1) + ((y - 1) \div 4) - ((y - 1) \div 100) + ((y - 1) \div 400)
RECURSIVE DaysBeforeMonth(_, _)
DaysBeforeMonth(y, m) ==
    IF m = 1 THEN 0 ELSE DaysBeforeMonth(y, m - 1) + DaysIn(y, m - 1)
Ordinal(d) == DaysBeforeYear(d.y) + DaysBeforeMonth(d.y, d.m) + d.d

\* the securities table
Securities == ("TCS.NS" :> 1) @@ ("ITC.NS" :> 2)

\* the day of the request
Today == [kind |-> "date", y |-> 2025, m |-> 7, d |-> 15]

\* a row of document_chunks; the embedding is a point on a line, and the
\* operator <-> is the distance on it
ChunkRow(n, sid, type, date, vec) ==
    [security_id |-> sid, document_type |-> type,
     source_url |-> <<"file://", "annual_reports", n>>,
     report_date |-> date, embedding |-> vec, chunk_hash |-> <<n>>]
Distance(a, b) == IF a >= b THEN a - b ELSE b - a

\* the rows a store is made of: two entities, three types, dates on both
\* sides of every bound the query uses, and rows without a date
RowCatalogue ==
    {ChunkRow(1, 1, "Annual Report", [kind |-> "date", y |-> 2024, m |-> 6, d |-> 1], 9),
     ChunkRow(2, 1, "Annual Report", [kind |-> "date", y |-> 2023, m |-> 1, d |-> 1], 1),
     ChunkRow(3, 1, "Annual Report", None, 2),
     ChunkRow(4, 1, "Credit Rating", [kind |-> "date", y |-> 2025, m |-> 6, d |-> 15], 3),
     ChunkRow(5, 1, "Credit Rating", [kind |-> "date", y |-> 2022, m |-> 6, d |-> 15], 4),
     ChunkRow(6, 2, "Annual Report", [kind |-> "date", y |-> 2024, m |-> 6, d |-> 1], 1),
     ChunkRow(7, 1, "Annual Report", [kind |-> "date", y |-> 2023, m |-> 7, d |-> 16], 5),
     ChunkRow(8, 1, "Annual Report", [kind |-> "date", y |-> 2023, m |-> 7, d |-> 15], 6),
     ChunkRow(9, 1, "Annual Report", [kind |-> "date", y |-> 2023, m |-> 12, d |-> 31], 7),
     ChunkRow(10, 1, "Credit Rating", [kind |-> "date", y |-> 2024, m |-> 1, d |-> 1], 8),
     ChunkRow(11, 1, "Unknown", [kind |-> "date", y |-> 2024, m |-> 6, d |-> 1], 9)}

\* the chunks of one more annual report of entity 1
FillRows(n) ==
    {ChunkRow(100 + k, 1, "Annual Report",
              [kind |-> "date", y |-> 2025, m |-> 1, d |-> k], 10 + k) : k \in 1..n}
FillCounts == {0, MaxFill, MaxFill + 15}

\* query_details.get('year'): an int, a str, or None
IntYear(y) == [kind |-> "int", year |-> y]
StrYear(t) == [kind |-> "str", str |-> t]
Years == {None, IntYear(2023), IntYear(2024), StrYear("latest"), StrYear("2024")}
\* query_details.get('document_type'): "" stands for every falsy value
DocumentTypes == {"", "Annual Report", "Credit Rating"}
\* query_details.get('intent'): "" stands for a missing key (None)
Intents == {"specific_fact", "detailed_summary", "overview", ""}

\* what the LLM writes for the filter prompt: a JSON object (a key that
\* is missing reads as a falsy value through .get), a JSON value that is
\* not an object, or a text that is not JSON
LlmContents ==
    {[json |-> "object", intent |-> i, document_type |-> t, year |-> y] :
        i \in Intents, t \in DocumentTypes, y \in Years}
    \cup {[json |-> j, intent |-> "", document_type |-> "", year |-> None] :
             j \in {"array", "invalid"}}

\* the positional parameters, as psycopg2 adapts them: an int, a str (a
\* quoted literal whose type the store infers), a datetime.date
IdParam(v) == [py |-> "int", id |-> v]
TypeParam(t) == [py |-> "str", holds |-> "type", type |-> t]
DateStrParam(y, m, d) ==
    [py |-> "str", holds |-> "date", ord |-> Ordinal([y |-> y, m |-> m, d |-> d])]
VectorParam(v) == [py |-> "str", holds |-> "vector", vec |-> v]
DateParam(o) == [py |-> "date", ord |-> o]

\* list.insert(i, x)
PyInsert(list, i, x) ==
    LET at == Min(i, Len(list))
    IN SubSeq(list, 1, at) \o <<x>> \o SubSeq(list, at + 1, Len(list))

\* datetime.now().date() - timedelta(days=365)
SinceOneYear(day) == Ordinal(day) - 365

\* two_years_ago = datetime.now().date() - timedelta(days=730)
Since(day) == Ordinal(day) - 730

NoResponse == [status |-> 0, body |-> "", at |-> ""]
\* the handler of lines 247-249
Http500(step) == [status |-> 500, body |-> "error", at |-> step]
Http200(body) == [status |-> 200, body |-> body, at |-> "done"]

\* the stores of the model
Stores ==
    {base \cup FillRows(n) :
       base \in {b \in SUBSET RowCatalogue : Cardinality(b) <= MaxRows},
       n \in FillCounts}

QueryInit ==
    /\ document_chunks \in {SetToBag(st) : st \in Stores}
    /\ http_request \in {[path |-> p, ticker |-> t, question |-> 0] :
                            p \in {"/query", "/summarize-news"},
                            t \in {"TCS.NS", "ZZZ.NS"}}
    /\ today = Today
    /\ llm_content = << >>
    /\ query_details = << >>
    /\ security_record = << >>
    /\ sql_query = << >> /\ query_params = << >> /\ num_chunks = 0
    /\ results = << >>
    /\ query_pc = IF http_request.path = "/query" THEN "extract" ELSE "news_lookup"
    /\ response = NoResponse
    /\ ChunkOff
    /\ IngestOff
    /\ MetaOff
    /\ PoolOff

\* lines 129-149: the LLM returns the filters (json.loads raises on a
\* text that is not JSON), the embedding model the vector of the
\* question; either call can raise
QueryExtract ==
    /\ query_pc = "extract"
    /\ \/ \E c \in LlmContents :
             /\ llm_content' = c
             /\ IF c.json = "invalid"
                   THEN /\ query_pc' = "done"
                        /\ response' = Http500("json")
                        /\ UNCHANGED query_details
                   ELSE /\ query_details' = c
                        /\ query_pc' = "lookup"
                        /\ UNCHANGED response
       \/ /\ query_pc' = "done"
          /\ response' = Http500("extract")
          /\ UNCHANGED <<llm_content, query_details>>
    /\ UNCHANGED <<http_request, today, security_record, sql_query, query_params,
                   num_chunks, results, notQueryVars>>

\* lines 152-159: the security of the ticker; the HTTPException(404) is
\* raised inside the try and caught by "except Exception"
QueryLookup ==
    /\ query_pc = "lookup"
    /\ IF http_request.ticker \in DOMAIN Securities
          THEN /\ security_record' = [id |-> Securities[http_request.ticker]]
               /\ query_pc' = "build"
               /\ UNCHANGED response
          ELSE /\ query_pc' = "done"
               /\ response' = Http500("lookup")
               /\ UNCHANGED security_record
    /\ UNCHANGED <<http_request, today, llm_content, query_details, sql_query, query_params,
                   num_chunks, results, notQueryVars>>

\* lines 162-167: the entity and the document type
WithType(q, t) ==
    IF t # "" THEN [where |-> Append(q.where, "document_type"),
                    params |-> PyInsert(q.params, 1, TypeParam(t))]
              ELSE q

\* lines 170-186: the year
WithYear(q, y, day) ==
    IF y.kind = "int"
       THEN [where |-> Append(q.where, "between"),
             params |-> PyInsert(PyInsert(q.params, 2, DateStrParam(y.year, 1, 1)),
                                 3, DateStrParam(y.year, 12, 31))]
    ELSE IF y = StrYear("latest") THEN q
    ELSE [where |-> Append(q.where, "since"),
          params |-> PyInsert(q.params, 1, DateParam(Since(day)))]

\* line 189
NumChunks(intent) == IF intent = "detailed_summary" THEN 20 ELSE 5

\* lines 161-191; query_details.get raises AttributeError on a value that
\* is not a dict
QueryBuild ==
    /\ query_pc = "build"
    /\ IF query_details.json # "object"
          THEN /\ query_pc' = "done"
               /\ response' = Http500("build")
               /\ UNCHANGED <<sql_query, query_params, num_chunks>>
          ELSE /\ LET q0 == [where |-> <<"security_id">>,
                             params |-> <<IdParam(security_record.id),
                                          VectorParam(http_request.question)>>]
                      q == WithYear(WithType(q0, query_details.document_type),
                                    query_details.year, today)
                  IN /\ sql_query' = q.where
                     /\ query_params' = q.params
               /\ num_chunks' = NumChunks(query_details.intent)
               /\ query_pc' = "execute"
               /\ UNCHANGED response
    /\ UNCHANGED <<http_request, today, llm_content, query_details, security_record,
                   results, notQueryVars>>

\* the placeholders of the SQL text, in its order, by what each expects
RECURSIVE WherePlaceholders(_)
WherePlaceholders(where) ==
    IF where = << >> THEN << >>
    ELSE (CASE Head(where) = "security_id" -> <<"id">>
            [] Head(where) = "document_type" -> <<"text">>
            [] Head(where) = "between" -> <<"date", "date">>
            [] Head(where) = "since" -> <<"date">>)
         \o WherePlaceholders(Tail(where))
Placeholders(where) == WherePlaceholders(where) \o <<"vector">>

\* the store accepts the parameter at the placeholder: a str is read as
\* the type the placeholder needs, when it spells a value of that type
Fits(ph, p) ==
    CASE ph = "id" -> p.py = "int"
      [] ph = "text" -> p.py = "str"
      [] ph = "date" -> p.py = "date" \/ (p.py = "str" /\ p.holds = "date")
      [] ph = "vector" -> p.py = "str" /\ p.holds = "vector"

Bindable(where, params) ==
    /\ Len(Placeholders(where)) = Len(params)
    /\ \A k \in DOMAIN params : Fits(Placeholders(where)[k], params[k])

\* the WHERE clause on one row, with the parameters bound by position
RECURSIVE Satisfies(_, _, _)
Satisfies(r, where, params) ==
    IF where = << >> THEN TRUE
    ELSE CASE Head(where) = "security_id" ->
                /\ r.security_id = params[1].id
                /\ Satisfies(r, Tail(where), Tail(params))
           [] Head(where) = "document_type" ->
                /\ params[1].holds = "type"
                /\ r.document_type = params[1].type
                /\ Satisfies(r, Tail(where), Tail(params))
           [] Head(where) = "between" ->
                /\ r.report_date.kind = "date"
                /\ Ordinal(r.report_date) >= params[1].ord
                /\ Ordinal(r.report_date) <= params[2].ord
                /\ Satisfies(r, Tail(where), Tail(Tail(params)))
           [] Head(where) = "since" ->
                /\ r.report_date.kind = "date"
                /\ Ordinal(r.report_date) >= params[1].ord
                /\ Satisfies(r, Tail(where), Tail(params))

\* ORDER BY embedding <-> %s, report_date DESC: the distance first
BeforeByDistance(a, b, vec) ==
    \/ Distance(a.embedding, vec) < Distance(b.embedding, vec)
    \/ /\ Distance(a.embedding, vec) = Distance(b.embedding, vec)
       /\ a.report_date.kind = "date" /\ b.report_date.kind = "date"
       /\ Ordinal(a.report_date) > Ordinal(b.report_date)

\* ORDER BY report_date DESC, embedding <-> %s: a row without a date sorts
\* before every dated row (NULLS FIRST is the default of DESC)
Before(a, b, vec) ==
    LET ka == IF a.report_date.kind = "date" THEN Ordinal(a.report_date) ELSE 10000000
        kb == IF b.report_date.kind = "date" THEN Ordinal(b.report_date) ELSE 10000000
    IN \/ ka > kb
       \/ ka = kb /\ Distance(a.embedding, vec) < Distance(b.embedding, vec)

\* the first n rows in that order; rows that the order does not tell
\* apart come in any order
RECURSIVE Ordered(_, _, _)
Ordered(rows, n, vec) ==
    IF rows = {} \/ n = 0 THEN {<< >>}
    ELSE UNION {{<<m>> \o rest : rest \in Ordered(rows \ {m}, n - 1, vec)} :
                  m \in {x \in rows : \A o \in rows : ~Before(o, x, vec)}}

\* lines 193-196: execute and fetchall; no row gives the answer of line 196
QueryExecute ==
    /\ query_pc = "execute"
    /\ IF ~Bindable(sql_query, query_params)
          THEN /\ query_pc' = "done"
               /\ response' = Http500("execute")
               /\ UNCHANGED results
          ELSE LET found == {r \in BagToSet(document_chunks) :
                               Satisfies(r, sql_query, query_params)}
                   vec == query_params[Len(query_params)].vec
               IN \E rows \in Ordered(found, num_chunks, vec) :
                     /\ results' = rows
                     /\ IF rows = << >>
                           THEN /\ query_pc' = "done"
                                /\ response' = Http200("no_info")
                           ELSE /\ query_pc' = "source"
                                /\ UNCHANGED response
    /\ UNCHANGED <<http_request, today, llm_content, query_details, security_record, sql_query,
                   query_params, num_chunks, notQueryVars>>

\* lines 198-200: the context and the source line; strftime on the date
\* of the first row raises when that date is None
QuerySource ==
    /\ query_pc = "source"
    /\ IF results[1].report_date.kind = "date"
          THEN /\ query_pc' = "answer"
               /\ UNCHANGED response
          ELSE /\ query_pc' = "done"
               /\ response' = Http500("source")
    /\ UNCHANGED <<http_request, today, llm_content, query_details, security_record, sql_query,
                   query_params, num_chunks, results, notQueryVars>>

\* lines 202-249: the LLM writes the answer, or the call raises
QueryAnswer ==
    /\ query_pc = "answer"
    /\ query_pc' = "done"
    /\ \E ok \in BOOLEAN :
          response' = IF ok THEN Http200("answer") ELSE Http500("answer")
    /\ UNCHANGED <<http_request, today, llm_content, query_details, security_record, sql_query,
                   query_params, num_chunks, results, notQueryVars>>

(***************************************************************************)
(* summarize_stock_news (src/main.py)                                      *)
(***************************************************************************)
\* the numbers of news articles a security can have in news_articles
NewsCounts == {0, 3, 7}
NewsRow(k) == [title |-> <<"title", k>>, content |-> <<"content", k>>]

\* lines 56-64: the security of the ticker; the HTTPException(404) is
\* raised inside the try and caught by "except Exception" (line 110)
SummarizeLookup ==
    /\ query_pc = "news_lookup"
    /\ IF http_request.ticker \in DOMAIN Securities
          THEN /\ security_record' = [id |-> Securities[http_request.ticker]]
               /\ query_pc' = "news_fetch"
               /\ UNCHANGED response
          ELSE /\ query_pc' = "done"
               /\ response' = Http500("lookup")
               /\ UNCHANGED security_record
    /\ UNCHANGED <<http_request, today, llm_content, query_details, sql_query,
                   query_params, num_chunks, results, notQueryVars>>

\* lines 67-78: the 5 latest articles; none gives the answer of line 78
SummarizeFetch ==
    /\ query_pc = "news_fetch"
    /\ \E n \in NewsCounts :
          /\ results' = [k \in 1..Min(n, 5) |-> NewsRow(k)]
          /\ IF n = 0
                THEN /\ query_pc' = "done"
                     /\ response' = Http200("no_news")
                ELSE /\ query_pc' = "news_answer"
                     /\ UNCHANGED response
    /\ UNCHANGED <<http_request, today, llm_content, query_details, security_record,
                   sql_query, query_params, num_chunks, notQueryVars>>

\* lines 81-112: the LLM writes the analysis, or the call raises
SummarizeAnswer ==
    /\ query_pc = "news_answer"
    /\ query_pc' = "done"
    /\ \E ok \in BOOLEAN :
          response' = IF ok THEN Http200("analysis") ELSE Http500("answer")
    /\ UNCHANGED <<http_request, today, llm_content, query_details, security_record,
                   sql_query, query_params, num_chunks, results, notQueryVars>>

QueryNext ==
    \/ QueryExtract \/ QueryLookup \/ QueryBuild
    \/ QueryExecute \/ QuerySource \/ QueryAnswer
    \/ SummarizeLookup \/ SummarizeFetch \/ SummarizeAnswer

QuerySpec == QueryInit /\ [][QueryNext]_vars

(***************************************************************************)
(* The connection pool during one run_document_processing: the tasks of    *)
(* the executor are counted by where they are (waiting, on a worker with   *)
(* k gateway operations still to make, inside a gateway operation with a   *)
(* connection, finished).                                                  *)
(***************************************************************************)
MaxFiles == 9          \* files in the scanned directory
MaxOps == 2            \* gateway operations one task makes

\* SimpleConnectionPool(minconn=1, maxconn=10, ...)
MinConn == 1
PoolMax == 10

RECURSIVE SumOver(_, _)
SumOver(f, S) ==
    IF S = {} THEN 0
    ELSE LET k == CHOOSE x \in S : TRUE IN f[k] + SumOver(f, S \ {k})

\* the tasks that occupy a worker thread, and those inside get_connection
Holding(e) == SumOver(e.holding, DOMAIN e.holding)
OnWorker(e) == SumOver(e.running, DOMAIN e.running) + Holding(e)

\* get_connection whose putconn is not in a finally clause
PutconnOnSuccess(ended) == ended = "ok"

\* lines 45-47 of database.py: finally: if conn: self.pool.putconn(conn)
PutconnRuns(ended) == TRUE

\* pool.getconn(): an idle connection, or a new one below maxconn, or
\* PoolError("connection pool exhausted")
Getconn(p) ==
    IF p.idle > 0 THEN [p EXCEPT !.idle = @ - 1, !.used = @ + 1]
    ELSE IF p.used = PoolMax THEN [p EXCEPT !.exhausted = TRUE]
    ELSE [p EXCEPT !.used = @ + 1]

\* pool.putconn(conn): kept when fewer than minconn are idle, else closed
Putconn(p) ==
    IF p.idle < MinConn THEN [p EXCEPT !.used = @ - 1, !.idle = @ + 1]
    ELSE [p EXCEPT !.used = @ - 1]

\* the operations a task has left after one that raised: the handler of
\* process_single_file calls delete_chunks_for_file, which raises nothing
AfterError(k) == Min(1, k - 1)

PoolInit ==
    /\ pool = [used |-> 0, idle |-> 0, closed |-> FALSE, exhausted |-> FALSE]
    /\ executor \in {[total |-> n, queued |-> 0, finished |-> 0,
                      running |-> [k \in 0..MaxOps |-> 0],
                      holding |-> [k \in 1..MaxOps |-> 0]] : n \in 0..MaxFiles}
    /\ pool_pc = "create"
    /\ ChunkOff
    /\ IngestOff /\ document_chunks = EmptyBag
    /\ MetaOff
    /\ QueryOff

\* line 108 of updater.py: DatabaseManager() opens minconn connections, or
\* raises and leaves db_manager None
PoolCreate ==
    /\ pool_pc = "create"
    /\ \E ok \in BOOLEAN :
          IF ok THEN /\ pool' = [pool EXCEPT !.idle = MinConn]
                     /\ pool_pc' = "tickers"
                ELSE /\ pool_pc' = "done"
                     /\ UNCHANGED pool
    /\ UNCHANGED <<executor, notPoolVars>>

\* line 112: get_all_tickers on the main thread takes a connection
PoolTickersEnter ==
    /\ pool_pc = "tickers"
    /\ pool' = Getconn(pool)
    /\ pool_pc' = "tickers_held"
    /\ UNCHANGED <<executor, notPoolVars>>

\* ... and gives it back; no ticker, or an exception, ends the run
\* (lines 113-115, 148-154)
PoolTickersExit ==
    /\ pool_pc = "tickers_held"
    /\ \E ended \in {"ok", "none", "raise"} :
          /\ pool' = IF PutconnRuns(ended)
                        THEN [Putconn(pool) EXCEPT !.closed = ended # "ok"]
                        ELSE [pool EXCEPT !.closed = ended # "ok"]
          /\ pool_pc' = IF ended = "ok" THEN "listing" ELSE "done"
    /\ UNCHANGED <<executor, notPoolVars>>

\* lines 127-138: the files are listed and one task per file submitted;
\* no file ends the run
PoolSubmit ==
    /\ pool_pc = "listing"
    /\ IF executor.total = 0
          THEN /\ pool' = [pool EXCEPT !.closed = TRUE]
               /\ pool_pc' = "done"
               /\ UNCHANGED executor
          ELSE /\ executor' = [executor EXCEPT !.queued = executor.total]
               /\ pool_pc' = "tasks"
               /\ UNCHANGED pool
    /\ UNCHANGED notPoolVars

\* a worker thread of the executor (max_workers=8) takes a waiting task,
\* which will make k gateway operations
PoolTaskStart ==
    /\ pool_pc = "tasks"
    /\ executor.queued > 0
    /\ OnWorker(executor) < MaxWorkers
    /\ \E k \in 0..MaxOps :
          executor' = [executor EXCEPT !.queued = @ - 1, !.running[k] = @ + 1]
    /\ UNCHANGED <<pool, pool_pc, notPoolVars>>

\* a task enters a gateway operation: with self.get_connection() as conn;
\* getconn raises when the pool is exhausted or the new connection cannot
\* be opened, and conn stays None
PoolEnter ==
    /\ pool_pc = "tasks"
    /\ \E k \in 1..MaxOps, opened \in BOOLEAN :
          /\ executor.running[k] > 0
          /\ opened \/ pool.idle = 0
          /\ pool' = IF opened THEN Getconn(pool) ELSE pool
          /\ executor' =
               IF pool'.exhausted \/ ~opened
                  THEN [executor EXCEPT !.running[k] = @ - 1,
                                        !.running[AfterError(k)] = @ + 1]
                  ELSE [executor EXCEPT !.running[k] = @ - 1, !.holding[k] = @ + 1]
    /\ UNCHANGED <<pool_pc, notPoolVars>>

\* the operation ends, with or without an exception, and get_connection
\* is left
PoolExit ==
    /\ pool_pc = "tasks"
    /\ \E k \in 1..MaxOps, ended \in {"ok", "raise"} :
          /\ executor.holding[k] > 0
          /\ pool' = IF PutconnRuns(ended) THEN Putconn(pool) ELSE pool
          /\ executor' =
               LET next == IF ended = "ok" THEN k - 1 ELSE AfterError(k)
               IN [executor EXCEPT !.holding[k] = @ - 1, !.running[next] = @ + 1]
    /\ UNCHANGED <<pool_pc, notPoolVars>>

\* process_single_file returns or raises
PoolTaskFinish ==
    /\ pool_pc = "tasks"
    /\ executor.running[0] > 0
    /\ executor' = [executor EXCEPT !.running[0] = @ - 1, !.finished = @ + 1]
    /\ UNCHANGED <<pool, pool_pc, notPoolVars>>

\* a with block that is left without waiting for the tasks
ExecutorExitNoWait(e) == TRUE

\* lines 136-146: the with block of the executor is left when every task
\* has finished (shutdown(wait=True))
ExecutorExit(e) == e.finished = e.total

\* lines 151-154: finally: db_manager.pool.closeall()
PoolCloseAll ==
    /\ pool_pc = "tasks"
    /\ ExecutorExit(executor)
    /\ pool' = [pool EXCEPT !.closed = TRUE]
    /\ pool_pc' = "done"
    /\ UNCHANGED <<executor, notPoolVars>>

PoolNext ==
    \/ PoolCreate \/ PoolTickersEnter \/ PoolTickersExit \/ PoolSubmit
    \/ PoolTaskStart \/ PoolEnter \/ PoolExit \/ PoolTaskFinish \/ PoolCloseAll

PoolSpec == PoolInit /\ [][PoolNext]_vars

(***************************************************************************)
(* Properties of the ingestion of one file                                 *)
(***************************************************************************)
Ended(f) == task_pc[f] = "done"
TextChunks(f) == Plan[f][TRUE].text_chunks
RowsOf(f) == {r \in BagToSet(document_chunks) : r.source_url = SourceUrl(f)}
StoredTexts(f) == {r.chunk_hash : r \in RowsOf(f)}
OnceEach(f) == \A r \in RowsOf(f) : CopiesIn(r, document_chunks) = 1
Requests(log) == {k \in DOMAIN log : log[k].got # "none"}
Vectors(log) == {log[k].chunk : k \in {j \in DOMAIN log : log[j].got = "ok"}}
Failures(log) == {log[k].chunk : k \in {j \in DOMAIN log : log[j].got = "fail"}}
KeyOf(r) == <<r.security_id, r.document_type, r.source_url, r.chunk_hash>>

\* C1 (as claimed): whenever an ingest has ended by quarantining its file,
\* the store holds no chunk whose source is that file.
C1_AllOrNothing ==
    \A f \in Files :
       (Ended(f) /\ f \in quarantine) => RowsOf(f) = {}

\* C2: when a file is ingested a second time and the embedding requests
\* come out as they did the first time (parsing and chunking are functions
\* of the file), the gateway raising in neither ingest, the rows of the
\* file after the second ingest are the rows after the first: the same
\* rows, each stored once.
C2_IdempotentIngestion ==
    \A f \in Files :
       ( /\ Ended(f) /\ prev_outcome[f] # "none"
         /\ embed_log[f] = prev_log[f]
         /\ ~fault[f] /\ ~prev_fault[f] )
       => SourceRows(document_chunks, f) = prev_rows[f]

C2_Witness ==
    \E f \in Files :
       /\ Ended(f) /\ outcome[f] = "succeeded" /\ prev_outcome[f] = "succeeded"
       /\ embed_log[f] = prev_log[f]
       /\ Cardinality(Vectors(embed_log[f])) >= 2
       /\ RowsOf(f) # {}

\* C3: in every state no two rows of document_chunks share
\* (security_id, document_type, source_url, chunk_hash) and no row is stored
\* twice; and every chunk a task has upserted is a row of its own source as
\* long as the task has not cleaned up, so a text that two files hold is
\* stored once per file.
C3_Uniqueness ==
    /\ \A r \in BagToSet(document_chunks) : CopiesIn(r, document_chunks) = 1
    /\ \A r1, r2 \in BagToSet(document_chunks) : KeyOf(r1) = KeyOf(r2) => r1 = r2
    /\ \A f \in Files :
          task_pc[f] = "loop" \/ (Ended(f) /\ outcome[f] \in {"succeeded", "escaped"})
          => \A k \in upserted[f] :
                Md5(CleanChunk(TextChunks(f)[k])) \in StoredTexts(f)

C3_Witness ==
    \E r1, r2 \in BagToSet(document_chunks) :
       /\ r1.chunk_hash = r2.chunk_hash
       /\ r1.security_id = r2.security_id /\ r1.document_type = r2.document_type
       /\ r1.source_url # r2.source_url

\* the texts a file can contribute, by digest: its cleaned chunks that are
\* not empty
FullTexts(f) ==
    {Md5(t) : t \in {CleanChunk(TextChunks(f)[k]) : k \in DOMAIN TextChunks(f)}
                     \ {<< >>}}

\* C4: when an ingest that ran to its end dropped chunks whose embedding
\* requests failed, and the next ingest of the file runs to its end with
\* every embedding request answered, the store then holds exactly the
\* distinct chunk texts of the file, each in one row stored once.
C4_Healing ==
    \A f \in Files :
       ( /\ Ended(f) /\ outcome[f] = "succeeded" /\ Failures(embed_log[f]) = {}
         /\ prev_outcome[f] = "succeeded" /\ Failures(prev_log[f]) # {} )
       => /\ StoredTexts(f) = FullTexts(f)
          /\ Cardinality(RowsOf(f)) = Cardinality(FullTexts(f))
          /\ OnceEach(f)

C4_Witness ==
    \E f \in Files :
       /\ Ended(f) /\ outcome[f] = "succeeded" /\ Failures(embed_log[f]) = {}
       /\ prev_outcome[f] = "succeeded" /\ Failures(prev_log[f]) # {}
       /\ Cardinality(BagToSet(prev_rows[f])) < Cardinality(FullTexts(f))
       /\ Cardinality(RowsOf(f)) = 2

\* the files of the model that the claim's cases name: too few tokens, a
\* PPT tag on a text file, a ticker that is not known, a file whose parse fails
SkipCases == {"TCS.pdf", "ITC_PPT_202501.txt", "XYZ_2024.pdf", "ITC_2024.pdf"}

\* C5: the step in which a task skips its file moves no file, changes no
\* row and requests no embedding; and the task of each file of the
\* claim's cases ends in that step, returning False.
C5_SkipsHaveNoSideEffect ==
    [][\A f \in Files :
         /\ (outcome[f] # "skipped" /\ outcome'[f] = "skipped")
            => /\ annual_reports' = annual_reports /\ quarantine' = quarantine
               /\ f \in annual_reports'
               /\ document_chunks' = document_chunks
               /\ embed_log'[f] = << >> /\ embed_log' = embed_log
         /\ (f \in SkipCases /\ task_pc[f] = "queued" /\ task_pc'[f] # "queued")
            => /\ outcome'[f] = "skipped" /\ task_pc'[f] = "done"
               /\ result'[f] = "False"]_vars

C5_Witness ==
    /\ Ended("ITC_PPT_202501.txt") /\ outcome["ITC_PPT_202501.txt"] = "skipped"
    /\ "ITC_PPT_202501.txt" \in annual_reports
    /\ \E g \in Files : RowsOf(g) # {}

\* C6: in an ingest that ran to its end, every chunk went through the loop
\* once, an embedding was requested for it once unless its cleaned text is
\* empty, the chunks upserted are exactly those whose request returned a
\* vector, and each of them is a row of the file; and an ingest in which
\* requests failed and the gateway did not raise ends succeeded, with the
\* file left in place.
C6_EmbeddingFailureContained ==
    \A f \in Files :
       LET log == embed_log[f]
           n == Len(TextChunks(f))
       IN /\ (Ended(f) /\ outcome[f] = "succeeded")
             => /\ \A k \in 1..n :
                     Cardinality({j \in DOMAIN log : log[j].chunk = k}) = 1
                /\ \A j \in DOMAIN log :
                     log[j].got = "none"
                     <=> CleanChunk(TextChunks(f)[log[j].chunk]) = << >>
                /\ upserted[f] = Vectors(log)
                /\ \A k \in Vectors(log) :
                     Md5(CleanChunk(TextChunks(f)[k])) \in StoredTexts(f)
          /\ (Ended(f) /\ Failures(log) # {} /\ ~fault[f])
             => /\ outcome[f] = "succeeded" /\ result[f] = "True"
                /\ f \in annual_reports /\ f \notin quarantine

C6_Witness ==
    \E f \in Files :
       /\ Ended(f) /\ outcome[f] = "succeeded"
       /\ 1 \in Failures(embed_log[f]) /\ 3 \in Vectors(embed_log[f])
       /\ Cardinality(RowsOf(f)) = 1

C8_QuarantineIsTerminal ==
    [][\A f \in Files :
         f \in quarantine
         => /\ f \in quarantine' /\ f \notin annual_reports'
            /\ (run_pc # "processing" /\ run_pc' = "processing")
               => f \notin all_files_to_process'
            /\ task_pc'[f] \in {task_pc[f], "done", "none"}
            /\ BagCardinality(SourceRows(document_chunks', f))
                  <= BagCardinality(SourceRows(document_chunks, f))]_vars

C8_Witness ==
    \E f \in Files :
       /\ f \in quarantine /\ Ended(f)
       /\ all_files_to_process = {} /\ run_pc = "finished" /\ runs_left = 0

C10_ChunkWindowing ==
    LET N == Len(text)
        step == chunk_size - chunk_overlap
        ks == {k \in 0..N : k * step < N}
    IN /\ (chunk_pc = "done" /\ chunk_overlap < chunk_size)
          => /\ Len(chunks) = Cardinality(ks)
             /\ \A k \in ks :
                  chunks[k + 1] =
                     [j \in 1..(Min(k * step + chunk_size, N) - k * step) |->
                        text[k * step + j]]
       /\ (chunk_pc = "done" /\ chunk_size = 300 /\ chunk_overlap = 50 /\ N = 700)
          => /\ Len(chunks) = 3
             /\ chunks[1][1] = text[0 + 1]
             /\ chunks[2][1] = text[250 + 1]
             /\ chunks[3][1] = text[500 + 1]

C10_Witness ==
    /\ chunk_pc = "done" /\ chunk_size = 300 /\ chunk_overlap = 50
    /\ Len(text) = 700 /\ Len(chunks) = 3 /\ Len(chunks[3]) = 200

\* ceil(a / b) for a >= 0 and b > 0
CeilDiv(a, b) == (a + b - 1) \div b

\* C11 (as claimed): with chunk_size 300 and overlap 50, a text of N words
\* gives ceil(max(N - 50, 0) / 250) chunks.
C11_ChunkCountAsClaimed ==
    (chunk_pc = "done" /\ chunk_size = 300 /\ chunk_overlap = 50)
    => Len(chunks) = CeilDiv(Max(Len(text) - 50, 0), 250)

\* C11 (amended): with chunk_size 300 and overlap 50, a text of N words
\* gives ceil(N / 250) chunks: one for every start index below N.
C11_ChunkCount ==
    (chunk_pc = "done" /\ chunk_size = 300 /\ chunk_overlap = 50)
    => Len(chunks) = CeilDiv(Len(text), 250)

C11_Witness ==
    /\ chunk_pc = "done" /\ chunk_size = 300 /\ chunk_overlap = 50
    /\ Len(text) = 251 /\ Len(chunks) = 2 /\ Len(chunks[2]) = 1

\* C12 (as claimed): every chunk but the last has exactly chunk_size
\* words, and the last has between 1 and chunk_size words.
C12_OnlyLastShortAsClaimed ==
    (chunk_pc = "done" /\ chunk_overlap < chunk_size)
    => \A k \in DOMAIN chunks :
          IF k < Len(chunks)
             THEN Len(chunks[k]) = chunk_size
             ELSE Len(chunks[k]) \in 1..chunk_size

\* C12 (amended): every chunk has between 1 and chunk_size words, namely
\* chunk_size words or all the words left from its start index if these
\* are fewer; the lengths never grow along the sequence, so the short
\* chunks are the trailing ones, and without overlap only the last may be
\* short.
C12_ShortChunksTrail ==
    (chunk_pc = "done" /\ chunk_overlap < chunk_size)
    => LET N == Len(text)
           step == chunk_size - chunk_overlap
       IN /\ \A k \in DOMAIN chunks :
               /\ Len(chunks[k]) \in 1..chunk_size
               /\ Len(chunks[k]) = Min(chunk_size, N - (k - 1) * step)
               /\ k < Len(chunks) => Len(chunks[k + 1]) <= Len(chunks[k])
          /\ chunk_overlap = 0
             => \A k \in DOMAIN chunks :
                   k < Len(chunks) => Len(chunks[k]) = chunk_size

C12_Witness ==
    /\ chunk_pc = "done" /\ chunk_size = 300 /\ chunk_overlap = 50
    /\ Len(chunks) = 3 /\ Len(chunks[1]) = 300
    /\ Len(chunks[2]) < 300 /\ Len(chunks[3]) < Len(chunks[2])

\* C13 (as claimed): every call of chunk_text comes to an end, with its
\* chunks or with an error, whatever chunk_size and chunk_overlap are.
C13_ChunkTextTerminates == <>(chunk_pc \in {"done", "error"})

\* C13 (as claimed), in the form that bounds the loop: every iteration of
\* the loop of chunk_text moves start forward, so that the loop ends after
\* at most len(words) iterations whatever chunk_size and chunk_overlap are
\* (a call whose step is zero or negative fails before it iterates).
C13_EveryIterationAdvances ==
    [][(chunk_pc = "loop" /\ chunk_pc' = "loop") => start' > start]_chunkVars

(***************************************************************************)
(* Properties of the file name                                             *)
(***************************************************************************)
\* the number of underscore-separated tokens of the name without its
\* extension, and the last of them
NumTokens(name) ==
    LET base == SplitExt(name)[1]
    IN 1 + Cardinality({k \in DOMAIN base : base[k] = "_"})
LastToken(name) ==
    LET base == SplitExt(name)[1]
        seps == {k \in DOMAIN base : base[k] = "_"}
        from == IF seps = {} THEN 0 ELSE CHOOSE k \in seps : \A j \in seps : j <= k
    IN SubSeq(base, from + 1, Len(base))
FewTokens(name) ==
    \/ NumTokens(name) < 2
    \/ NumTokens(name) = 2 /\ ~(IsDigit(LastToken(name)) /\ Len(LastToken(name)) = 4)
Date(y, m, d) == [kind |-> "date", y |-> y, m |-> m, d |-> d]
RejectedForName == {"malformed", "skipped_extension", "raised"}

\* C14: a name with fewer tokens than its convention needs (one token, or
\* two without a year) goes no further than the test of step 1, so before
\* the file is parsed or chunked; RELIANCE.pdf is such a name.
\* RELIANCE_2024.pdf is not turned away for its name and is accepted with
\* ticker RELIANCE, type Annual Report and date 2024-03-31;
\* TCS_CR_crisil_20250730.txt likewise with type Credit Rating and date
\* 2025-07-30.
C14_FilenameAcceptance ==
    /\ FewTokens(filename) => meta_pc \in {"name", "malformed"}
    /\ filename = TokRELIANCE \o DotPdf => meta_pc \in {"name", "malformed"}
    /\ filename = JoinTokens(<<TokRELIANCE, Code2024>>) \o DotPdf
       => /\ meta_pc \notin RejectedForName
          /\ meta_pc = "accepted"
             => /\ meta.parts[1] = TokRELIANCE
                /\ meta.ticker = TokRELIANCE \o DotNS
                /\ meta.doc_type = "Annual Report"
                /\ meta.report_date = Date(2024, 3, 31)
    /\ filename = JoinTokens(<<TokTCS, TagCR, TokCrisil, Code20250730>>) \o DotTxt
       => /\ meta_pc \notin RejectedForName
          /\ meta_pc = "accepted"
             => /\ meta.parts[1] = TokTCS
                /\ meta.doc_type = "Credit Rating"
                /\ meta.report_date = Date(2025, 7, 30)

C14_Witness ==
    /\ filename = JoinTokens(<<TokTCS, TagCR, TokCrisil, Code20250730>>) \o DotTxt
    /\ meta_pc = "accepted"
    /\ meta.doc_type = "Credit Rating" /\ meta.report_date = Date(2025, 7, 30)

\* C15 (as claimed): for every accepted name the report date comes from
\* the last token: four digits give March 31 of that year, eight digits
\* the date they spell, six digits the first day of the month they spell.
C15_DateByDatecodeLength ==
    meta_pc = "accepted"
    => LET code == LastToken(filename)
       IN /\ (IsDigit(code) /\ Len(code) = 4)
             => meta.report_date = Date(NumVal(code), 3, 31)
          /\ (Len(code) = 8 /\ StrptimeYmd(code).kind = "date")
             => meta.report_date = StrptimeYmd(code)
          /\ (Len(code) = 6 /\ StrptimeYm(code).kind = "date")
             => meta.report_date = StrptimeYm(code)

\* C16 (as claimed): for every name with the minimum token count the date
\* extraction raises nothing that ends the ingestion, and a datecode that
\* is of another length or does not parse leaves report_date null.
C16_DateNeverFails ==
    ~FewTokens(filename)
    => /\ meta_pc # "raised"
       /\ meta_pc = "accepted"
          => LET code == LastToken(filename)
             IN ( /\ ~(IsDigit(code) /\ Len(code) = 4)
                  /\ StrptimeYmd(code).kind # "date"
                  /\ StrptimeYm(code).kind # "date" )
                => meta.report_date = None

(***************************************************************************)
(* Properties of query_documents                                           *)
(***************************************************************************)
\* the query reached cursor.execute
Executed ==
    /\ http_request.path = "/query"
    /\ \/ query_pc \in {"source", "answer"}
       \/ query_pc = "done" /\ response.at \in {"execute", "source", "answer", "done"}
Returned == {results[k] : k \in DOMAIN results}
RowNo(n) == CHOOSE r \in RowCatalogue : r.chunk_hash = <<n>>
OfEntityAndType(r) ==
    /\ r.security_id = security_record.id
    /\ query_details.document_type # ""
       => r.document_type = query_details.document_type
InYear(r, y) ==
    /\ r.report_date.kind = "date"
    /\ r.report_date.y = y
Recent(r) ==
    /\ r.report_date.kind = "date"
    /\ Ordinal(r.report_date) >= Ordinal(today) - 730
MeetsDate(r) ==
    IF query_details.year.kind = "int" THEN InYear(r, query_details.year.year)
    ELSE IF query_details.year = StrYear("latest") THEN TRUE
    ELSE Recent(r)
Wanted == {r \in BagToSet(document_chunks) : OfEntityAndType(r) /\ MeetsDate(r)}
Position(r) == CHOOSE k \in DOMAIN results : results[k] = r

\* C17 (as claimed): whatever filters were extracted, every row returned
\* is of the requested entity and, if a type was extracted, of that type;
\* and with a type extracted every row of the entity and the type that
\* meets the date condition is returned, unless the limit cut it off.
C17_EntityAndTypeFiltering ==
    Executed
    => /\ \A r \in Returned : OfEntityAndType(r)
       /\ (query_details.document_type # "" /\ Len(results) < num_chunks)
          => Wanted \subseteq Returned

\* C18 (as claimed): with an integer year Y extracted, with or without a
\* type, the rows returned are rows of the entity (and type) dated within
\* Y, and all of them unless the limit cut some off.
C18_ExplicitYear ==
    (Executed /\ query_details.year.kind = "int")
    => /\ Returned \subseteq Wanted
       /\ Len(results) < num_chunks => Wanted \subseteq Returned

\* C19: with no year extracted every row returned is dated, not more than
\* 730 days before today.  With no type extracted either, the rows
\* returned are the rows of the entity with such a date, all of them unless
\* the limit cut some off: a store whose rows of the entity are all dated 3
\* years and 1 month ago gives no row and the answer of an empty result,
\* and a row dated 1 month ago, the latest of the store, is returned.
C19_DefaultRecency ==
    ( /\ Executed
      /\ query_details.year.kind # "int"
      /\ query_details.year # StrYear("latest") )
    => /\ \A r \in Returned : Recent(r)
       /\ query_details.document_type = ""
          => /\ Returned \subseteq Wanted
             /\ Len(results) < num_chunks => Wanted \subseteq Returned
             /\ ( \A r \in BagToSet(document_chunks) :
                     r.security_id = security_record.id => r = RowNo(5) )
                => results = << >> /\ response = Http200("no_info")
             /\ ( /\ RowNo(4) \in BagToSet(document_chunks)
                  /\ security_record.id = 1 )
                => RowNo(4) \in Returned

C19_Witness ==
    /\ query_pc = "done" /\ response = Http200("answer")
    /\ query_details.year = None /\ query_details.document_type = ""
    /\ RowNo(4) \in Returned
    /\ RowNo(5) \in BagToSet(document_chunks) /\ RowNo(5) \notin Returned

\* C20: with the year 'latest' the query binds, no date condition is
\* applied (every row of the entity and type is returned unless the limit
\* cut it off, dated or not), and the rows come by report_date descending
\* (rows without a date first), rows of one date by distance ascending;
\* when the chunk dated 2023-01-01 is returned, the chunk dated 2024-06-01
\* of the same entity and type is returned before it, whatever the
\* distances.
C20_LatestOrdering ==
    (Executed /\ query_details.year = StrYear("latest"))
    => /\ response.at # "execute"
       /\ \A r \in Returned : OfEntityAndType(r)
       /\ Len(results) < num_chunks
          => {r \in BagToSet(document_chunks) : OfEntityAndType(r)} \subseteq Returned
       /\ \A i, j \in DOMAIN results :
             i < j
             => LET a == results[i]
                    b == results[j]
                    q == http_request.question
                IN /\ b.report_date.kind # "date" => a.report_date.kind # "date"
                   /\ (a.report_date.kind = "date" /\ b.report_date.kind = "date")
                      => Ordinal(a.report_date) >= Ordinal(b.report_date)
                   /\ a.report_date = b.report_date
                      => Distance(a.embedding, q) <= Distance(b.embedding, q)
       /\ ( /\ RowNo(2) \in Returned
            /\ RowNo(1) \in BagToSet(document_chunks) )
          => /\ RowNo(1) \in Returned
             /\ Position(RowNo(1)) < Position(RowNo(2))

C20_Witness ==
    /\ query_pc = "done" /\ response = Http200("answer")
    /\ query_details.year = StrYear("latest")
    /\ query_details.document_type = "Annual Report"
    /\ RowNo(1) \in Returned /\ RowNo(2) \in Returned
    /\ Position(RowNo(1)) < Position(RowNo(2))
    /\ Distance(RowNo(1).embedding, http_request.question)
         > Distance(RowNo(2).embedding, http_request.question)

\* the distance of a row to the embedding of the question
Far(r) == Distance(r.embedding, http_request.question)

\* C21 (as claimed): unless the year is 'latest', the rows returned come by
\* distance only: a row never precedes a nearer one, whatever their dates,
\* and no row that the limit cut off is nearer than a row returned.
C21_NearestNeighbourOrdering ==
    (Executed /\ query_details.year # StrYear("latest"))
    => /\ \A i, j \in DOMAIN results :
             i < j => Far(results[i]) <= Far(results[j])
       /\ \A r \in Wanted \ Returned : \A x \in Returned : Far(x) <= Far(r)

\* C22 (as claimed): a query of intent detailed_summary retrieves
\* min(20, number of eligible rows) rows, and a query of any other intent
\* (specific_fact, unrecognised, missing) min(5, number of eligible rows).
C22_ResultSize ==
    Executed
    => LET limit == IF query_details.intent = "detailed_summary" THEN 20 ELSE 5
       IN Len(results) = Min(limit, Cardinality(Wanted))

\* the LLM answered the filter prompt
Extracted ==
    /\ http_request.path = "/query"
    /\ query_pc # "extract"
    /\ response.at # "extract"

\* C23 (as claimed): when the LLM's output for the filters is not JSON, or
\* is not a JSON object, the query is not failed for it: it goes on as a
\* specific_fact query (5 chunks) with no extracted filter.
C23_MalformedOutputDegrades ==
    (Extracted /\ llm_content.json # "object")
    => /\ response.at \notin {"json", "build"}
       /\ query_pc \in {"execute", "source", "answer"}
          => num_chunks = 5 /\ sql_query = <<"security_id", "since">>

\* C27 (as claimed): a request for a ticker that is not in securities,
\* once the lookup was made, is answered with status 404.
C27_UnknownTickerIs404 ==
    ( /\ query_pc = "done"
      /\ http_request.ticker \notin DOMAIN Securities
      /\ response.at \notin {"extract", "json"} )
    => response.status = 404

\* C28 (as claimed): a result set that is not empty is never answered with
\* the error of the source line: the query goes on to the prompt, also
\* when the first row has no report_date.
C28_NullDateNeverFails ==
    (Executed /\ results # << >> /\ query_pc = "done")
    => response.at \in {"answer", "done"}

\* the SQL text and its parameter list were built
Built == query_pc = "execute" \/ Executed

\* the parameters in the order of the placeholders of the text
InTextOrder ==
    <<IdParam(security_record.id)>>
    \o (IF query_details.document_type # ""
           THEN <<TypeParam(query_details.document_type)>> ELSE << >>)
    \o (IF query_details.year.kind = "int"
           THEN <<DateStrParam(query_details.year.year, 1, 1),
                  DateStrParam(query_details.year.year, 12, 31)>>
        ELSE IF query_details.year = StrYear("latest") THEN << >>
        ELSE <<DateParam(Ordinal(today) - 730)>>)
    \o <<VectorParam(http_request.question)>>

\* C26 (as claimed): for every combination of extracted filters the
\* parameter list has the length and the order of the placeholders of the
\* SQL text: the entity id, the document type if any, the date bound or
\* bounds if any, the embedding of the question.
C26_ParametersInTextOrder ==
    Built
    => /\ Len(query_params) = Len(Placeholders(sql_query))
       /\ query_params = InTextOrder

(***************************************************************************)
(* Properties of parse_document                                            *)
(***************************************************************************)
\* the file was handed to parse_document
Parsed == meta_pc \in {"skipped_parse", "date", "raised", "accepted"}
Unreadable ==
    \/ ~on_disk.exists
    \/ ~(IsPdf(filename) \/ IsTxt(filename))
    \/ \E k \in DOMAIN on_disk.pages : ~on_disk.pages[k].ok

\* C24: parse_document returns the whole text of the file or the empty
\* text, never a part of it.  For a file that is missing, or of an
\* extension other than .pdf and .txt, or of which a page (the first or a
\* later one) fails to extract or decode, it returns the empty text, and
\* process_single_file returns False at the test of the text: the file
\* does not reach the handler that quarantines.
C24_ParserNeverCrashes ==
    Parsed
    => /\ meta.raw_text \in {<< >>, JoinPages(on_disk.pages)}
       /\ Unreadable => meta.raw_text = << >> /\ meta_pc = "skipped_parse"

C24_Witness ==
    /\ meta_pc = "skipped_parse"
    /\ IsPdf(filename) /\ on_disk.exists
    /\ on_disk.pages = <<Page(<<1>>), BadPage>>

(***************************************************************************)
(* Properties of the stored chunks                                         *)
(***************************************************************************)
\* C25: no step updates a stored row.  A row that stays keeps its number
\* of copies; a row that appears has a key that no stored row had (so an
\* upsert of an existing key, whatever embedding and report_date it
\* brings, changes nothing); a row that disappears goes with every row of
\* its source, and the file of that source is in quarantine.
C25_ChunksNeverUpdated ==
    [][LET old == BagToSet(document_chunks)
           new == BagToSet(document_chunks')
       IN /\ \A r \in old \cap new :
                CopiesIn(r, document_chunks') = CopiesIn(r, document_chunks)
          /\ \A r \in new \ old : \A x \in old : KeyOf(x) # KeyOf(r)
          /\ \A r \in old \ new :
                /\ \A x \in new : x.source_url # r.source_url
                /\ \E f \in quarantine' : r.source_url = SourceUrl(f)]_vars

\* an upsert has returned for a key that was stored with another embedding
C25_Witness ==
    \E f \in Files :
       /\ task_pc[f] \in {"loop", "done"}
       /\ \E k \in upserted[f] : \E r \in RowsOf(f) :
             /\ r.chunk_hash = Md5(CleanChunk(TextChunks(f)[k]))
             /\ r.embedding # Embedding(model_name, CleanChunk(TextChunks(f)[k]))

(***************************************************************************)
(* Properties of the connection pool                                       *)
(***************************************************************************)
\* C29: during a batch run every connection that is checked out is held
\* by one task that is inside a gateway operation (a task outside one
\* holds none, after a success and after an error), so the connections
\* checked out are never more than the 8 workers and fewer than the 10 of
\* the pool; getconn never finds the pool exhausted; and the pool is
\* closed only when every task has finished and no connection is out.
C29_PoolSafety ==
    pool_pc \in {"tasks", "done"}
    => /\ pool.used = Holding(executor)
       /\ pool.used <= OnWorker(executor)
       /\ OnWorker(executor) <= MaxWorkers
       /\ pool.used < PoolMax
       /\ ~pool.exhausted
       /\ pool.closed
          => /\ executor.queued = 0
             /\ OnWorker(executor) = 0
             /\ pool.used = 0

\* all 8 workers are inside a gateway operation and a task waits
C29_Witness ==
    /\ pool_pc = "tasks"
    /\ pool.used = MaxWorkers
    /\ executor.queued > 0

(***************************************************************************)
(* Properties of chunk_text: coverage and overlap                          *)
(***************************************************************************)
\* C30: for chunk_overlap < chunk_size and a text of N words (word i of
\* the model's text is the number i): every chunk is non-empty and is a
\* run of consecutive words of the text in their order; every word of the
\* text lies in a chunk; a chunk that is followed by another one ends
\* with the words the next one starts with, which are exactly
\* min(chunk_overlap, words from the next start to the end of the text)
\* words; and a text without words gives no chunk.
C30_CoverageAndOverlap ==
    (chunk_pc = "done" /\ chunk_overlap < chunk_size)
    => LET N == Len(text)
           step == chunk_size - chunk_overlap
       IN /\ \A k \in DOMAIN chunks :
                /\ chunks[k] # << >>
                /\ chunks[k][1] \in 1..N
                /\ \A j \in 1..(Len(chunks[k]) - 1) :
                      chunks[k][j + 1] = chunks[k][j] + 1
                /\ chunks[k][Len(chunks[k])] <= N
          /\ \A i \in 1..N :
                \E k \in DOMAIN chunks :
                   chunks[k][1] <= i /\ i <= chunks[k][Len(chunks[k])]
          /\ \A k \in 1..(Len(chunks) - 1) :
                LET c == chunks[k]
                    d == chunks[k + 1]
                    shared == Min(chunk_overlap, N - k * step)
                IN /\ shared <= Len(c) /\ shared <= Len(d)
                   /\ SubSeq(c, Len(c) - shared + 1, Len(c)) = SubSeq(d, 1, shared)
                   /\ c[Len(c)] - d[1] + 1 = shared
          /\ N = 0 => chunks = << >>

\* 520 words with 300 and 50: the second chunk shares 50 words with the
\* first and the last 20 of its 270 words with the third
C30_Witness ==
    /\ chunk_pc = "done" /\ chunk_size = 300 /\ chunk_overlap = 50
    /\ Len(text) = 520 /\ Len(chunks) = 3
    /\ Len(chunks[2]) = 270 /\ Len(chunks[3]) = 20
    /\ SubSeq(chunks[2], 251, 270) = chunks[3]

====
